---------------------------- MODULE Spec2Model ----------------------------
(***************************************************************************)
(* Organizador de Arquivos por Extensao (main.js).                         *)
(*                                                                         *)
(* One process invocation is `node main.js <dir>`: the entry point reads   *)
(* argv, organizeDirectory lists the directory and, for each entry in      *)
(* listing order, stats it, classifies it by extension, creates the        *)
(* category folder and renames the file into it.  Every `await` of         *)
(* organizeDirectory is one step of the model.  The filesystem is the only *)
(* state that survives an invocation.                                      *)
(*                                                                         *)
(* A JavaScript string is a sequence of UTF-16 code units, and so is every *)
(* text of the model: a file name, an extension, a folder name, a line of  *)
(* output.  Units("a.JPG") is <<97, 46, 74, 80, 71>>.                      *)
(***************************************************************************)
EXTENDS Integers, Sequences, FiniteSets, TLC

VARIABLES
    target,             \* the target path: "listable", "missing" or "unreadable"
    top,                \* target directory: entry name -> kind
    sub,                \* content of each top-level directory: name -> (name -> kind)
    order,              \* the names of the last listing, in the order it gave them
    pc,                 \* position of the process
    listing,            \* items, as returned by fs.readdir
    i,                  \* index in items of the entry being processed
    fileExtension,      \* local of organizeDirectory (also the classifier's input)
    destinationFolder,  \* local of organizeDirectory (also the classifier's output)
    ops,                \* filesystem calls made by this invocation, in order
    out,                \* standard output of this invocation
    err,                \* standard error of this invocation
    exitCode,           \* exit status of this invocation, -1 while running
    run,                \* number of the invocation
    topStart,           \* top when this invocation started
    subStart,           \* sub when this invocation started
    prevOutcome         \* how the previous invocation that organized ended:
                        \* "none", "completed" or "aborted"

vars == <<target, top, sub, order, pc, listing, i, fileExtension,
          destinationFolder, ops, out, err, exitCode, run, topStart,
          subStart, prevOutcome>>

---------------------------------------------------------------------------
(* Bounds *)

\* Largest number of entries in the target directory before the first run.
MaxEntries == 3

\* Number of successive invocations on the same directory.
MaxRuns == 2

---------------------------------------------------------------------------
(* Text *)

\* The character of a literal at position k (1-based).
CharAt(s, k) == SubSeq(s, k, k)

\* The characters the literals of main.js are written with, in runs of
\* successive code units, each run with the code unit of its first character.
LiteralChars ==
    << <<" !\"#$%&'()*+,-./0123456789:;<=>?@ABCDEFGHIJKLMNOPQRSTUVWXYZ[\\]^_", 32>>,
       <<"abcdefghijklmnopqrstuvwxyz{|}~", 97>>,
       <<"¡¢£¤¥¦§¨©ª«¬", 161>>,
       <<"®¯°±²³´µ¶·¸¹º»¼½¾¿ÀÁÂÃÄÅÆÇÈÉÊËÌÍÎÏÐÑÒÓÔÕÖ×ØÙÚÛÜÝÞßàáâãäåæçèéêëìíîïðñòóôõö÷øùúûüýþÿ", 174>> >>

\* The code unit of each of those characters.
CodeUnitOf ==
    [c \in UNION { { CharAt(LiteralChars[r][1], k) : k \in 1..Len(LiteralChars[r][1]) }
                   : r \in 1..Len(LiteralChars) }
       |-> LET r == CHOOSE q \in 1..Len(LiteralChars) :
                      \E k \in 1..Len(LiteralChars[q][1]) : CharAt(LiteralChars[q][1], k) = c
               k == CHOOSE j \in 1..Len(LiteralChars[r][1]) : CharAt(LiteralChars[r][1], j) = c
           IN  LiteralChars[r][2] + k - 1]

\* A string literal as the sequence of its UTF-16 code units.
Units(s) == [k \in 1..Len(s) |-> CodeUnitOf[CharAt(s, k)]]

---------------------------------------------------------------------------
(* Static data *)

\* const FOLDER_MAPPING = { imagens: [...], ... } in declaration order
\* (for..in visits string keys in insertion order).
FOLDER_MAPPING ==
    << [folder |-> Units("imagens"),
        exts   |-> <<Units(".jpg"), Units(".jpeg"), Units(".png"), Units(".gif"),
                     Units(".bmp"), Units(".svg"), Units(".webp")>>],
       [folder |-> Units("documentos"),
        exts   |-> <<Units(".pdf"), Units(".doc"), Units(".docx"), Units(".xls"),
                     Units(".xlsx"), Units(".ppt"), Units(".pptx"), Units(".txt"),
                     Units(".csv"), Units(".rtf")>>],
       [folder |-> Units("videos"),
        exts   |-> <<Units(".mp4"), Units(".mkv"), Units(".avi"), Units(".mov"),
                     Units(".wmv")>>],
       [folder |-> Units("audios"),
        exts   |-> <<Units(".mp3"), Units(".wav"), Units(".aac"), Units(".flac")>>],
       [folder |-> Units("arquivos_comprimidos"),
        exts   |-> <<Units(".zip"), Units(".rar"), Units(".7z"), Units(".tar"),
                     Units(".gz")>>],
       [folder |-> Units("codigo"),
        exts   |-> <<Units(".js"), Units(".html"), Units(".css"), Units(".py"),
                     Units(".java"), Units(".c"), Units(".cpp"), Units(".json"),
                     Units(".xml")>>] >>

\* The fixed parts of the lines the program prints and of the messages of
\* the errors node raises (10 is the code unit of the line feed).
Text ==
    [ start    |-> Units("Iniciando organização do diretório: "),
      movido   |-> Units("Movido: "),
      arrow    |-> Units(" -> "),
      slash    |-> Units("/"),
      success  |-> <<10>> \o Units("Organização concluída com sucesso!"),
      erro     |-> Units("ERRO: Por favor, forneça o caminho para o diretório que deseja organizar."),
      uso      |-> Units("Uso: node main.js <caminho_do_diretorio>"),
      ocorreu  |-> <<10>> \o Units("Ocorreu um erro: "),
      hint     |-> Units("Verifique se o caminho do diretório está correto."),
      quote    |-> Units("'"),
      to       |-> Units("' -> '"),
      scandirENOENT |-> Units("ENOENT: no such file or directory, scandir '"),
      scandirEACCES |-> Units("EACCES: permission denied, scandir '"),
      statENOENT    |-> Units("ENOENT: no such file or directory, stat '"),
      mkdirENOENT   |-> Units("ENOENT: no such file or directory, mkdir '"),
      mkdirEEXIST   |-> Units("EEXIST: file already exists, mkdir '"),
      renameENOENT  |-> Units("ENOENT: no such file or directory, rename "),
      renameENOTDIR |-> Units("ENOTDIR: not a directory, rename "),
      renameEPERM   |-> Units("EPERM: operation not permitted, rename "),
      renameEISDIR  |-> Units("EISDIR: illegal operation on a directory, rename ") ]

\* The fallback category of getDestinationFolder.
Outros == Units("outros")

\* The name the skip rule compares every entry with.
SelfName == Units("main.js")

\* The absolute path of the target directory (path.resolve(process.argv[2])).
directoryPath == Units("/alvo")

---------------------------------------------------------------------------
(* Pure functions *)

\* Array.prototype.includes on a list of strings.
Includes(list, x) == \E k \in 1..Len(list) : list[k] = x

\* for (const folder in FOLDER_MAPPING) from position k on.
RECURSIVE SearchFrom(_, _)
SearchFrom(k, ext) ==
    IF k > Len(FOLDER_MAPPING) THEN Outros
    ELSE IF Includes(FOLDER_MAPPING[k].exts, ext) THEN FOLDER_MAPPING[k].folder
    ELSE SearchFrom(k + 1, ext)

\* Mutant: the loop starts at the second category.
getDestinationFolderSkipsFirst(ext) == SearchFrom(2, ext)

getDestinationFolder(ext) == SearchFrom(1, ext)

---------------------------------------------------------------------------
(* String.prototype.toLowerCase *)

\* toLowerCase works on the code points of the string, by the Unicode
\* default case conversion (data of Unicode 17.0): each code point gives its
\* lower-case mapping, with two special cases.  U+0130 gives U+0069 U+0307,
\* and U+03A3 gives U+03C2 at the end of a word and U+03C3 elsewhere.

\* The code points with a lower-case mapping of one code point other than
\* themselves (U+03A3 apart), as runs <<first, last, step, delta>> in
\* increasing order: first, first + step, ..., last each give themselves
\* plus delta.
LowerRuns ==
    << <<65, 90, 1, 32>>, <<192, 214, 1, 32>>, <<216, 222, 1, 32>>,
       <<256, 302, 2, 1>>, <<306, 310, 2, 1>>, <<313, 327, 2, 1>>,
       <<330, 374, 2, 1>>, <<376, 376, 1, -121>>, <<377, 381, 2, 1>>,
       <<385, 385, 1, 210>>, <<386, 388, 2, 1>>, <<390, 390, 1, 206>>,
       <<391, 391, 1, 1>>, <<393, 394, 1, 205>>, <<395, 395, 1, 1>>,
       <<398, 398, 1, 79>>, <<399, 399, 1, 202>>, <<400, 400, 1, 203>>,
       <<401, 401, 1, 1>>, <<403, 403, 1, 205>>, <<404, 404, 1, 207>>,
       <<406, 406, 1, 211>>, <<407, 407, 1, 209>>, <<408, 408, 1, 1>>,
       <<412, 412, 1, 211>>, <<413, 413, 1, 213>>, <<415, 415, 1, 214>>,
       <<416, 420, 2, 1>>, <<422, 422, 1, 218>>, <<423, 423, 1, 1>>,
       <<425, 425, 1, 218>>, <<428, 428, 1, 1>>, <<430, 430, 1, 218>>,
       <<431, 431, 1, 1>>, <<433, 434, 1, 217>>, <<435, 437, 2, 1>>,
       <<439, 439, 1, 219>>, <<440, 440, 1, 1>>, <<444, 444, 1, 1>>,
       <<452, 452, 1, 2>>, <<453, 453, 1, 1>>, <<455, 455, 1, 2>>,
       <<456, 456, 1, 1>>, <<458, 458, 1, 2>>, <<459, 475, 2, 1>>,
       <<478, 494, 2, 1>>, <<497, 497, 1, 2>>, <<498, 500, 2, 1>>,
       <<502, 502, 1, -97>>, <<503, 503, 1, -56>>, <<504, 542, 2, 1>>,
       <<544, 544, 1, -130>>, <<546, 562, 2, 1>>, <<570, 570, 1, 10795>>,
       <<571, 571, 1, 1>>, <<573, 573, 1, -163>>, <<574, 574, 1, 10792>>,
       <<577, 577, 1, 1>>, <<579, 579, 1, -195>>, <<580, 580, 1, 69>>,
       <<581, 581, 1, 71>>, <<582, 590, 2, 1>>, <<880, 882, 2, 1>>,
       <<886, 886, 1, 1>>, <<895, 895, 1, 116>>, <<902, 902, 1, 38>>,
       <<904, 906, 1, 37>>, <<908, 908, 1, 64>>, <<910, 911, 1, 63>>,
       <<913, 929, 1, 32>>, <<932, 939, 1, 32>>, <<975, 975, 1, 8>>,
       <<984, 1006, 2, 1>>, <<1012, 1012, 1, -60>>, <<1015, 1015, 1, 1>>,
       <<1017, 1017, 1, -7>>, <<1018, 1018, 1, 1>>, <<1021, 1023, 1, -130>>,
       <<1024, 1039, 1, 80>>, <<1040, 1071, 1, 32>>, <<1120, 1152, 2, 1>>,
       <<1162, 1214, 2, 1>>, <<1216, 1216, 1, 15>>, <<1217, 1229, 2, 1>>,
       <<1232, 1326, 2, 1>>, <<1329, 1366, 1, 48>>, <<4256, 4293, 1, 7264>>,
       <<4295, 4295, 1, 7264>>, <<4301, 4301, 1, 7264>>, <<5024, 5103, 1, 38864>>,
       <<5104, 5109, 1, 8>>, <<7305, 7305, 1, 1>>, <<7312, 7354, 1, -3008>>,
       <<7357, 7359, 1, -3008>>, <<7680, 7828, 2, 1>>, <<7838, 7838, 1, -7615>>,
       <<7840, 7934, 2, 1>>, <<7944, 7951, 1, -8>>, <<7960, 7965, 1, -8>>,
       <<7976, 7983, 1, -8>>, <<7992, 7999, 1, -8>>, <<8008, 8013, 1, -8>>,
       <<8025, 8031, 2, -8>>, <<8040, 8047, 1, -8>>, <<8072, 8079, 1, -8>>,
       <<8088, 8095, 1, -8>>, <<8104, 8111, 1, -8>>, <<8120, 8121, 1, -8>>,
       <<8122, 8123, 1, -74>>, <<8124, 8124, 1, -9>>, <<8136, 8139, 1, -86>>,
       <<8140, 8140, 1, -9>>, <<8152, 8153, 1, -8>>, <<8154, 8155, 1, -100>>,
       <<8168, 8169, 1, -8>>, <<8170, 8171, 1, -112>>, <<8172, 8172, 1, -7>>,
       <<8184, 8185, 1, -128>>, <<8186, 8187, 1, -126>>, <<8188, 8188, 1, -9>>,
       <<8486, 8486, 1, -7517>>, <<8490, 8490, 1, -8383>>, <<8491, 8491, 1, -8262>>,
       <<8498, 8498, 1, 28>>, <<8544, 8559, 1, 16>>, <<8579, 8579, 1, 1>>,
       <<9398, 9423, 1, 26>>, <<11264, 11311, 1, 48>>, <<11360, 11360, 1, 1>>,
       <<11362, 11362, 1, -10743>>, <<11363, 11363, 1, -3814>>, <<11364, 11364, 1, -10727>>,
       <<11367, 11371, 2, 1>>, <<11373, 11373, 1, -10780>>, <<11374, 11374, 1, -10749>>,
       <<11375, 11375, 1, -10783>>, <<11376, 11376, 1, -10782>>, <<11378, 11378, 1, 1>>,
       <<11381, 11381, 1, 1>>, <<11390, 11391, 1, -10815>>, <<11392, 11490, 2, 1>>,
       <<11499, 11501, 2, 1>>, <<11506, 11506, 1, 1>>, <<42560, 42604, 2, 1>>,
       <<42624, 42650, 2, 1>>, <<42786, 42798, 2, 1>>, <<42802, 42862, 2, 1>>,
       <<42873, 42875, 2, 1>>, <<42877, 42877, 1, -35332>>, <<42878, 42886, 2, 1>>,
       <<42891, 42891, 1, 1>>, <<42893, 42893, 1, -42280>>, <<42896, 42898, 2, 1>>,
       <<42902, 42920, 2, 1>>, <<42922, 42922, 1, -42308>>, <<42923, 42923, 1, -42319>>,
       <<42924, 42924, 1, -42315>>, <<42925, 42925, 1, -42305>>, <<42926, 42926, 1, -42308>>,
       <<42928, 42928, 1, -42258>>, <<42929, 42929, 1, -42282>>, <<42930, 42930, 1, -42261>>,
       <<42931, 42931, 1, 928>>, <<42932, 42946, 2, 1>>, <<42948, 42948, 1, -48>>,
       <<42949, 42949, 1, -42307>>, <<42950, 42950, 1, -35384>>, <<42951, 42953, 2, 1>>,
       <<42955, 42955, 1, -42343>>, <<42956, 42970, 2, 1>>, <<42972, 42972, 1, -42561>>,
       <<42997, 42997, 1, 1>>, <<65313, 65338, 1, 32>>, <<66560, 66599, 1, 40>>,
       <<66736, 66771, 1, 40>>, <<66928, 66938, 1, 39>>, <<66940, 66954, 1, 39>>,
       <<66956, 66962, 1, 39>>, <<66964, 66965, 1, 39>>, <<68736, 68786, 1, 64>>,
       <<68944, 68965, 1, 32>>, <<71840, 71871, 1, 32>>, <<93760, 93791, 1, 32>>,
       <<93856, 93880, 1, 27>>, <<125184, 125217, 1, 34>> >>

\* The code points that are cased and not case-ignorable, as ranges
\* <<first, last>> in increasing order.
CasedRanges ==
    << <<65, 90>>, <<97, 122>>, <<170, 170>>, <<181, 181>>,
       <<186, 186>>, <<192, 214>>, <<216, 246>>, <<248, 442>>,
       <<444, 447>>, <<452, 659>>, <<662, 687>>, <<880, 883>>,
       <<886, 887>>, <<891, 893>>, <<895, 895>>, <<902, 902>>,
       <<904, 906>>, <<908, 908>>, <<910, 929>>, <<931, 1013>>,
       <<1015, 1153>>, <<1162, 1327>>, <<1329, 1366>>, <<1376, 1416>>,
       <<4256, 4293>>, <<4295, 4295>>, <<4301, 4301>>, <<4304, 4346>>,
       <<4349, 4351>>, <<5024, 5109>>, <<5112, 5117>>, <<7296, 7306>>,
       <<7312, 7354>>, <<7357, 7359>>, <<7424, 7467>>, <<7531, 7543>>,
       <<7545, 7578>>, <<7680, 7957>>, <<7960, 7965>>, <<7968, 8005>>,
       <<8008, 8013>>, <<8016, 8023>>, <<8025, 8025>>, <<8027, 8027>>,
       <<8029, 8029>>, <<8031, 8061>>, <<8064, 8116>>, <<8118, 8124>>,
       <<8126, 8126>>, <<8130, 8132>>, <<8134, 8140>>, <<8144, 8147>>,
       <<8150, 8155>>, <<8160, 8172>>, <<8178, 8180>>, <<8182, 8188>>,
       <<8450, 8450>>, <<8455, 8455>>, <<8458, 8467>>, <<8469, 8469>>,
       <<8473, 8477>>, <<8484, 8484>>, <<8486, 8486>>, <<8488, 8488>>,
       <<8490, 8493>>, <<8495, 8500>>, <<8505, 8505>>, <<8508, 8511>>,
       <<8517, 8521>>, <<8526, 8526>>, <<8544, 8575>>, <<8579, 8580>>,
       <<9398, 9449>>, <<11264, 11387>>, <<11390, 11492>>, <<11499, 11502>>,
       <<11506, 11507>>, <<11520, 11557>>, <<11559, 11559>>, <<11565, 11565>>,
       <<42560, 42605>>, <<42624, 42651>>, <<42786, 42863>>, <<42865, 42887>>,
       <<42891, 42894>>, <<42896, 42972>>, <<42997, 42998>>, <<43002, 43002>>,
       <<43824, 43866>>, <<43872, 43880>>, <<43888, 43967>>, <<64256, 64262>>,
       <<64275, 64279>>, <<65313, 65338>>, <<65345, 65370>>, <<66560, 66639>>,
       <<66736, 66771>>, <<66776, 66811>>, <<66928, 66938>>, <<66940, 66954>>,
       <<66956, 66962>>, <<66964, 66965>>, <<66967, 66977>>, <<66979, 66993>>,
       <<66995, 67001>>, <<67003, 67004>>, <<68736, 68786>>, <<68800, 68850>>,
       <<68944, 68965>>, <<68976, 68997>>, <<71840, 71903>>, <<93760, 93823>>,
       <<93856, 93880>>, <<93883, 93907>>, <<119808, 119892>>, <<119894, 119964>>,
       <<119966, 119967>>, <<119970, 119970>>, <<119973, 119974>>, <<119977, 119980>>,
       <<119982, 119993>>, <<119995, 119995>>, <<119997, 120003>>, <<120005, 120069>>,
       <<120071, 120074>>, <<120077, 120084>>, <<120086, 120092>>, <<120094, 120121>>,
       <<120123, 120126>>, <<120128, 120132>>, <<120134, 120134>>, <<120138, 120144>>,
       <<120146, 120485>>, <<120488, 120512>>, <<120514, 120538>>, <<120540, 120570>>,
       <<120572, 120596>>, <<120598, 120628>>, <<120630, 120654>>, <<120656, 120686>>,
       <<120688, 120712>>, <<120714, 120744>>, <<120746, 120770>>, <<120772, 120779>>,
       <<122624, 122633>>, <<122635, 122654>>, <<122661, 122666>>, <<125184, 125251>>,
       <<127280, 127305>>, <<127312, 127337>>, <<127344, 127369>> >>

\* The case-ignorable code points, as ranges <<first, last>> in increasing
\* order.
CaseIgnorableRanges ==
    << <<39, 39>>, <<46, 46>>, <<58, 58>>, <<94, 94>>,
       <<96, 96>>, <<168, 168>>, <<173, 173>>, <<175, 175>>,
       <<180, 180>>, <<183, 184>>, <<688, 879>>, <<884, 885>>,
       <<890, 890>>, <<900, 901>>, <<903, 903>>, <<1155, 1161>>,
       <<1369, 1369>>, <<1375, 1375>>, <<1425, 1469>>, <<1471, 1471>>,
       <<1473, 1474>>, <<1476, 1477>>, <<1479, 1479>>, <<1524, 1524>>,
       <<1536, 1541>>, <<1552, 1562>>, <<1564, 1564>>, <<1600, 1600>>,
       <<1611, 1631>>, <<1648, 1648>>, <<1750, 1757>>, <<1759, 1768>>,
       <<1770, 1773>>, <<1807, 1807>>, <<1809, 1809>>, <<1840, 1866>>,
       <<1958, 1968>>, <<2027, 2037>>, <<2042, 2042>>, <<2045, 2045>>,
       <<2070, 2093>>, <<2137, 2139>>, <<2184, 2184>>, <<2192, 2193>>,
       <<2199, 2207>>, <<2249, 2306>>, <<2362, 2362>>, <<2364, 2364>>,
       <<2369, 2376>>, <<2381, 2381>>, <<2385, 2391>>, <<2402, 2403>>,
       <<2417, 2417>>, <<2433, 2433>>, <<2492, 2492>>, <<2497, 2500>>,
       <<2509, 2509>>, <<2530, 2531>>, <<2558, 2558>>, <<2561, 2562>>,
       <<2620, 2620>>, <<2625, 2626>>, <<2631, 2632>>, <<2635, 2637>>,
       <<2641, 2641>>, <<2672, 2673>>, <<2677, 2677>>, <<2689, 2690>>,
       <<2748, 2748>>, <<2753, 2757>>, <<2759, 2760>>, <<2765, 2765>>,
       <<2786, 2787>>, <<2810, 2815>>, <<2817, 2817>>, <<2876, 2876>>,
       <<2879, 2879>>, <<2881, 2884>>, <<2893, 2893>>, <<2901, 2902>>,
       <<2914, 2915>>, <<2946, 2946>>, <<3008, 3008>>, <<3021, 3021>>,
       <<3072, 3072>>, <<3076, 3076>>, <<3132, 3132>>, <<3134, 3136>>,
       <<3142, 3144>>, <<3146, 3149>>, <<3157, 3158>>, <<3170, 3171>>,
       <<3201, 3201>>, <<3260, 3260>>, <<3263, 3263>>, <<3270, 3270>>,
       <<3276, 3277>>, <<3298, 3299>>, <<3328, 3329>>, <<3387, 3388>>,
       <<3393, 3396>>, <<3405, 3405>>, <<3426, 3427>>, <<3457, 3457>>,
       <<3530, 3530>>, <<3538, 3540>>, <<3542, 3542>>, <<3633, 3633>>,
       <<3636, 3642>>, <<3654, 3662>>, <<3761, 3761>>, <<3764, 3772>>,
       <<3782, 3782>>, <<3784, 3790>>, <<3864, 3865>>, <<3893, 3893>>,
       <<3895, 3895>>, <<3897, 3897>>, <<3953, 3966>>, <<3968, 3972>>,
       <<3974, 3975>>, <<3981, 3991>>, <<3993, 4028>>, <<4038, 4038>>,
       <<4141, 4144>>, <<4146, 4151>>, <<4153, 4154>>, <<4157, 4158>>,
       <<4184, 4185>>, <<4190, 4192>>, <<4209, 4212>>, <<4226, 4226>>,
       <<4229, 4230>>, <<4237, 4237>>, <<4253, 4253>>, <<4348, 4348>>,
       <<4957, 4959>>, <<5906, 5908>>, <<5938, 5939>>, <<5970, 5971>>,
       <<6002, 6003>>, <<6068, 6069>>, <<6071, 6077>>, <<6086, 6086>>,
       <<6089, 6099>>, <<6103, 6103>>, <<6109, 6109>>, <<6155, 6159>>,
       <<6211, 6211>>, <<6277, 6278>>, <<6313, 6313>>, <<6432, 6434>>,
       <<6439, 6440>>, <<6450, 6450>>, <<6457, 6459>>, <<6679, 6680>>,
       <<6683, 6683>>, <<6742, 6742>>, <<6744, 6750>>, <<6752, 6752>>,
       <<6754, 6754>>, <<6757, 6764>>, <<6771, 6780>>, <<6783, 6783>>,
       <<6823, 6823>>, <<6832, 6877>>, <<6880, 6891>>, <<6912, 6915>>,
       <<6964, 6964>>, <<6966, 6970>>, <<6972, 6972>>, <<6978, 6978>>,
       <<7019, 7027>>, <<7040, 7041>>, <<7074, 7077>>, <<7080, 7081>>,
       <<7083, 7085>>, <<7142, 7142>>, <<7144, 7145>>, <<7149, 7149>>,
       <<7151, 7153>>, <<7212, 7219>>, <<7222, 7223>>, <<7288, 7293>>,
       <<7376, 7378>>, <<7380, 7392>>, <<7394, 7400>>, <<7405, 7405>>,
       <<7412, 7412>>, <<7416, 7417>>, <<7468, 7530>>, <<7544, 7544>>,
       <<7579, 7679>>, <<8125, 8125>>, <<8127, 8129>>, <<8141, 8143>>,
       <<8157, 8159>>, <<8173, 8175>>, <<8189, 8190>>, <<8203, 8207>>,
       <<8216, 8217>>, <<8228, 8228>>, <<8231, 8231>>, <<8234, 8238>>,
       <<8288, 8292>>, <<8294, 8303>>, <<8305, 8305>>, <<8319, 8319>>,
       <<8336, 8348>>, <<8400, 8432>>, <<11388, 11389>>, <<11503, 11505>>,
       <<11631, 11631>>, <<11647, 11647>>, <<11744, 11775>>, <<11823, 11823>>,
       <<12293, 12293>>, <<12330, 12333>>, <<12337, 12341>>, <<12347, 12347>>,
       <<12441, 12446>>, <<12540, 12542>>, <<40981, 40981>>, <<42232, 42237>>,
       <<42508, 42508>>, <<42607, 42610>>, <<42612, 42621>>, <<42623, 42623>>,
       <<42652, 42655>>, <<42736, 42737>>, <<42752, 42785>>, <<42864, 42864>>,
       <<42888, 42890>>, <<42993, 42996>>, <<43000, 43001>>, <<43010, 43010>>,
       <<43014, 43014>>, <<43019, 43019>>, <<43045, 43046>>, <<43052, 43052>>,
       <<43204, 43205>>, <<43232, 43249>>, <<43263, 43263>>, <<43302, 43309>>,
       <<43335, 43345>>, <<43392, 43394>>, <<43443, 43443>>, <<43446, 43449>>,
       <<43452, 43453>>, <<43471, 43471>>, <<43493, 43494>>, <<43561, 43566>>,
       <<43569, 43570>>, <<43573, 43574>>, <<43587, 43587>>, <<43596, 43596>>,
       <<43632, 43632>>, <<43644, 43644>>, <<43696, 43696>>, <<43698, 43700>>,
       <<43703, 43704>>, <<43710, 43711>>, <<43713, 43713>>, <<43741, 43741>>,
       <<43756, 43757>>, <<43763, 43764>>, <<43766, 43766>>, <<43867, 43871>>,
       <<43881, 43883>>, <<44005, 44005>>, <<44008, 44008>>, <<44013, 44013>>,
       <<64286, 64286>>, <<64434, 64450>>, <<65024, 65039>>, <<65043, 65043>>,
       <<65056, 65071>>, <<65106, 65106>>, <<65109, 65109>>, <<65279, 65279>>,
       <<65287, 65287>>, <<65294, 65294>>, <<65306, 65306>>, <<65342, 65342>>,
       <<65344, 65344>>, <<65392, 65392>>, <<65438, 65439>>, <<65507, 65507>>,
       <<65529, 65531>>, <<66045, 66045>>, <<66272, 66272>>, <<66422, 66426>>,
       <<67456, 67461>>, <<67463, 67504>>, <<67506, 67514>>, <<68097, 68099>>,
       <<68101, 68102>>, <<68108, 68111>>, <<68152, 68154>>, <<68159, 68159>>,
       <<68325, 68326>>, <<68900, 68903>>, <<68942, 68942>>, <<68969, 68973>>,
       <<68975, 68975>>, <<69291, 69292>>, <<69317, 69317>>, <<69370, 69375>>,
       <<69446, 69456>>, <<69506, 69509>>, <<69633, 69633>>, <<69688, 69702>>,
       <<69744, 69744>>, <<69747, 69748>>, <<69759, 69761>>, <<69811, 69814>>,
       <<69817, 69818>>, <<69821, 69821>>, <<69826, 69826>>, <<69837, 69837>>,
       <<69888, 69890>>, <<69927, 69931>>, <<69933, 69940>>, <<70003, 70003>>,
       <<70016, 70017>>, <<70070, 70078>>, <<70089, 70092>>, <<70095, 70095>>,
       <<70191, 70193>>, <<70196, 70196>>, <<70198, 70199>>, <<70206, 70206>>,
       <<70209, 70209>>, <<70367, 70367>>, <<70371, 70378>>, <<70400, 70401>>,
       <<70459, 70460>>, <<70464, 70464>>, <<70502, 70508>>, <<70512, 70516>>,
       <<70587, 70592>>, <<70606, 70606>>, <<70608, 70608>>, <<70610, 70610>>,
       <<70625, 70626>>, <<70712, 70719>>, <<70722, 70724>>, <<70726, 70726>>,
       <<70750, 70750>>, <<70835, 70840>>, <<70842, 70842>>, <<70847, 70848>>,
       <<70850, 70851>>, <<71090, 71093>>, <<71100, 71101>>, <<71103, 71104>>,
       <<71132, 71133>>, <<71219, 71226>>, <<71229, 71229>>, <<71231, 71232>>,
       <<71339, 71339>>, <<71341, 71341>>, <<71344, 71349>>, <<71351, 71351>>,
       <<71453, 71453>>, <<71455, 71455>>, <<71458, 71461>>, <<71463, 71467>>,
       <<71727, 71735>>, <<71737, 71738>>, <<71995, 71996>>, <<71998, 71998>>,
       <<72003, 72003>>, <<72148, 72151>>, <<72154, 72155>>, <<72160, 72160>>,
       <<72193, 72202>>, <<72243, 72248>>, <<72251, 72254>>, <<72263, 72263>>,
       <<72273, 72278>>, <<72281, 72283>>, <<72330, 72342>>, <<72344, 72345>>,
       <<72544, 72544>>, <<72546, 72548>>, <<72550, 72550>>, <<72752, 72758>>,
       <<72760, 72765>>, <<72767, 72767>>, <<72850, 72871>>, <<72874, 72880>>,
       <<72882, 72883>>, <<72885, 72886>>, <<73009, 73014>>, <<73018, 73018>>,
       <<73020, 73021>>, <<73023, 73029>>, <<73031, 73031>>, <<73104, 73105>>,
       <<73109, 73109>>, <<73111, 73111>>, <<73177, 73177>>, <<73459, 73460>>,
       <<73472, 73473>>, <<73526, 73530>>, <<73536, 73536>>, <<73538, 73538>>,
       <<73562, 73562>>, <<78896, 78912>>, <<78919, 78933>>, <<90398, 90409>>,
       <<90413, 90415>>, <<92912, 92916>>, <<92976, 92982>>, <<92992, 92995>>,
       <<93504, 93506>>, <<93547, 93548>>, <<94031, 94031>>, <<94095, 94111>>,
       <<94176, 94177>>, <<94179, 94180>>, <<94194, 94195>>, <<110576, 110579>>,
       <<110581, 110587>>, <<110589, 110590>>, <<113821, 113822>>, <<113824, 113827>>,
       <<118528, 118573>>, <<118576, 118598>>, <<119143, 119145>>, <<119155, 119170>>,
       <<119173, 119179>>, <<119210, 119213>>, <<119362, 119364>>, <<121344, 121398>>,
       <<121403, 121452>>, <<121461, 121461>>, <<121476, 121476>>, <<121499, 121503>>,
       <<121505, 121519>>, <<122880, 122886>>, <<122888, 122904>>, <<122907, 122913>>,
       <<122915, 122916>>, <<122918, 122922>>, <<122928, 122989>>, <<123023, 123023>>,
       <<123184, 123197>>, <<123566, 123566>>, <<123628, 123631>>, <<124139, 124143>>,
       <<124398, 124399>>, <<124643, 124643>>, <<124646, 124646>>, <<124654, 124655>>,
       <<124661, 124661>>, <<124671, 124671>>, <<125136, 125142>>, <<125252, 125259>>,
       <<127995, 127999>>, <<917505, 917505>>, <<917536, 917631>>, <<917760, 917999>> >>

\* The greatest index in a..b of a row of R that starts at or before cp
\* (a - 1: none); R is in increasing order.
RECURSIVE RowIndex(_, _, _, _)
RowIndex(R, cp, a, b) ==
    IF a > b THEN a - 1
    ELSE LET m == (a + b) \div 2
         IN  IF R[m][1] <= cp THEN RowIndex(R, cp, m + 1, b)
             ELSE RowIndex(R, cp, a, m - 1)

\* cp is in one of the ranges of R.
InRanges(R, cp) ==
    LET r == RowIndex(R, cp, 1, Len(R))
    IN  r > 0 /\ cp <= R[r][2]

\* The lower-case mapping of a code point other than U+0130 and U+03A3.
SimpleLower(cp) ==
    LET r == RowIndex(LowerRuns, cp, 1, Len(LowerRuns))
    IN  IF r > 0 /\ cp <= LowerRuns[r][2]
             /\ (cp - LowerRuns[r][1]) % LowerRuns[r][3] = 0
        THEN cp + LowerRuns[r][4]
        ELSE cp

\* Lead and trail surrogates.
IsLead(u)  == 55296 <= u /\ u <= 56319
IsTrail(u) == 56320 <= u /\ u <= 57343

\* The code points of s from position k on: a lead surrogate followed by a
\* trail surrogate is one code point, any other code unit is its own.
RECURSIVE CodePointsFrom(_, _)
CodePointsFrom(s, k) ==
    IF k > Len(s) THEN <<>>
    ELSE IF IsLead(s[k]) /\ k < Len(s) /\ IsTrail(s[k + 1])
         THEN <<65536 + (s[k] - 55296) * 1024 + (s[k + 1] - 56320)>>
                \o CodePointsFrom(s, k + 2)
         ELSE <<s[k]>> \o CodePointsFrom(s, k + 1)

\* The code units of one code point.
CodeUnits(cp) ==
    IF cp < 65536 THEN <<cp>>
    ELSE <<55296 + ((cp - 65536) \div 1024), 56320 + ((cp - 65536) % 1024)>>

\* A cased letter is found from position k of cps towards the start (dir = -1)
\* or the end (dir = 1), with nothing but case-ignorable code points before it.
RECURSIVE CasedLetterNext(_, _, _)
CasedLetterNext(cps, k, dir) ==
    IF k < 1 \/ k > Len(cps) THEN FALSE
    ELSE IF InRanges(CaseIgnorableRanges, cps[k]) THEN CasedLetterNext(cps, k + dir, dir)
    ELSE InRanges(CasedRanges, cps[k])

\* The sigma at position k ends a word: a cased letter precedes it and none
\* follows it.
FinalSigma(cps, k) ==
    CasedLetterNext(cps, k - 1, -1) /\ ~CasedLetterNext(cps, k + 1, 1)

\* The lower-case code points of the code point at position k of cps.
LowerAt(cps, k) ==
    IF cps[k] = 304 THEN <<105, 775>>
    ELSE IF cps[k] = 931 THEN (IF FinalSigma(cps, k) THEN <<962>> ELSE <<963>>)
    ELSE <<SimpleLower(cps[k])>>

\* The code units of the lower-case code points of cps from position k on.
RECURSIVE LowerFrom(_, _)
LowerFrom(cps, k) ==
    IF k > Len(cps) THEN <<>>
    ELSE LET l == LowerAt(cps, k)
         IN  (IF Len(l) = 2 THEN CodeUnits(l[1]) \o CodeUnits(l[2])
              ELSE CodeUnits(l[1]))
               \o LowerFrom(cps, k + 1)

\* Mutant: the extension is looked up as written.
toLowerCaseIdentity(s) == s

toLowerCase(s) == LowerFrom(CodePointsFrom(s, 1), 1)

---------------------------------------------------------------------------
(* path.extname and the loop's tests *)

\* path.extname's backward scan of a name without separators, from position k
\* (1-based) down to 1.  startDot is the position of the last dot (0: none);
\* preDotState is 0 before anything is seen to the left of that dot, -1 once a
\* character other than a dot is seen there, 1 when a dot is seen there.
\* 46 is the code unit of the dot.
RECURSIVE ExtScan(_, _, _, _)
ExtScan(s, k, startDot, preDotState) ==
    IF k = 0 THEN [startDot |-> startDot, preDotState |-> preDotState]
    ELSE IF s[k] = 46
         THEN IF startDot = 0 THEN ExtScan(s, k - 1, k, preDotState)
              ELSE ExtScan(s, k - 1, startDot, 1)
         ELSE IF startDot # 0 THEN ExtScan(s, k - 1, startDot, -1)
              ELSE ExtScan(s, k - 1, startDot, preDotState)

\* path.extname(item): '' when there is no dot, when nothing precedes the last
\* dot, or when the name is '..'; else the text from the last dot to the end.
extname(s) ==
    LET r    == ExtScan(s, Len(s), 0, 0)
        end  == Len(s)
    IN  IF \/ r.startDot = 0
           \/ end = 0
           \/ r.preDotState = 0
           \/ (r.preDotState = 1 /\ r.startDot = end /\ r.startDot = 2)
        THEN <<>>
        ELSE SubSeq(s, r.startDot, end)

\* Mutant: the self-exclusion is missing from the skip rule.
ShouldSkipDirsOnly(isDirectory, item) == isDirectory

\* if (itemStats.isDirectory() || item === 'main.js') continue;
ShouldSkip(isDirectory, item) == isDirectory \/ item = SelfName

\* Mutant: the check for an empty extension is missing.
NoExtensionNever(ext) == FALSE

\* if (!fileExtension) continue;
NoExtension(ext) == ext = <<>>

\* Mutant: the loop advances by two.
NextIndexSkips(k) == k + 2

\* for (const item of items): the iterator's next position.
NextIndex(k) == k + 1

---------------------------------------------------------------------------
(* The filesystem *)

\* A directory with nothing in it.
EmptyContent == [n \in {} |-> "file"]

\* A file name with the Kelvin sign U+212A for its K: m.M(U+212A)V.
KelvinName == <<109, 46, 77, 8490, 86>>

\* Directory entries the first run may find.  Kinds: "file" a regular file,
\* "dir" a directory, "dangling" a symbolic link whose target is missing
\* (fs.stat rejects), "locked" a regular file the user may not unlink
\* (fs.rename rejects).
Candidates ==
    { [name |-> Units("a.JPG"),      kind |-> "file",     content |-> EmptyContent],
      [name |-> Units("b.txt"),      kind |-> "file",     content |-> EmptyContent],
      [name |-> Units("run"),        kind |-> "file",     content |-> EmptyContent],
      [name |-> Units(".gitignore"), kind |-> "file",     content |-> EmptyContent],
      [name |-> Units("file."),      kind |-> "file",     content |-> EmptyContent],
      [name |-> Units("main.js"),    kind |-> "file",     content |-> EmptyContent],
      [name |-> Units("data.xyz"),   kind |-> "file",     content |-> EmptyContent],
      [name |-> KelvinName,          kind |-> "file",     content |-> EmptyContent],
      [name |-> Units("pics.png"),   kind |-> "dir",      content |-> EmptyContent],
      [name |-> Units("link.mp3"),   kind |-> "dangling", content |-> EmptyContent],
      [name |-> Units("locked.jpg"), kind |-> "locked",   content |-> EmptyContent],
      [name |-> Units("imagens"),    kind |-> "file",     content |-> EmptyContent],
      [name |-> Units("imagens"),    kind |-> "dangling", content |-> EmptyContent],
      [name |-> Units("imagens"),    kind |-> "dir",      content |-> EmptyContent],
      [name |-> Units("imagens"),    kind |-> "dir",
       content |-> [n \in {Units("a.JPG")} |-> "file"]],
      [name |-> Units("imagens"),    kind |-> "dir",
       content |-> [n \in {Units("a.JPG")} |-> "dir"]] }

\* The directories of at most MaxEntries entries with distinct names.
InitialDirs ==
    { S \in SUBSET Candidates :
        /\ Cardinality(S) <= MaxEntries
        /\ \A a, b \in S : a.name = b.name => a = b }

EntryNamed(S, n) == CHOOSE c \in S : c.name = n

\* The sequence s with the name n put in after its first k names.
InsertAt(s, k, n) == SubSeq(s, 1, k) \o <<n>> \o SubSeq(s, k + 1, Len(s))

\* The sequences of Q with the names of N put in, each at any place.
RECURSIVE Insertions(_, _)
Insertions(Q, N) ==
    IF N = {} THEN Q
    ELSE LET n == CHOOSE x \in N : TRUE
         IN  Insertions(UNION { { InsertAt(s, k, n) : k \in 0..Len(s) } : s \in Q },
                        N \ {n})

\* The orders in which fs.readdir may return the names of S after it returned
\* o the time before: it promises no order, but the order is that of the
\* directory, so the entries that stayed come in the order they came in
\* before, and the new ones come anywhere.
Listings(S, o) ==
    Insertions({ SelectSeq(o, LAMBDA n : n \in S) },
               S \ { o[k] : k \in 1..Len(o) })

\* fs.readdir(directoryPath) rejects when the path is missing or may not be read.
ReaddirFails(t) == t # "listable"

\* The error of a rejected fs.readdir.
ReaddirError(t) ==
    IF t = "missing"
    THEN [code |-> "ENOENT",
          message |-> Text.scandirENOENT
                        \o directoryPath \o Text.quote]
    ELSE [code |-> "EACCES",
          message |-> Text.scandirEACCES
                        \o directoryPath \o Text.quote]

\* fs.stat(itemPath) follows links and rejects when the target is missing.
StatFails(t, item) == t[item] = "dangling"

\* The error of a rejected fs.stat.
StatError(item) ==
    [code |-> "ENOENT",
     message |-> Text.statENOENT
                   \o directoryPath \o Text.slash \o item \o Text.quote]

\* fs.mkdir(destinationPath, { recursive: true }) fulfils when the path is
\* absent (and creates it) or is a directory; it rejects when it is anything else.
MkdirFails(t, dest) == dest \in DOMAIN t /\ t[dest] # "dir"

\* The error of a rejected fs.mkdir: a dangling link at the path cannot be
\* followed (ENOENT); any other entry that is no directory is in the way (EEXIST).
MkdirError(t, dest) ==
    IF t[dest] = "dangling"
    THEN [code |-> "ENOENT",
          message |-> Text.mkdirENOENT
                        \o directoryPath \o Text.slash \o dest \o Text.quote]
    ELSE [code |-> "EEXIST",
          message |-> Text.mkdirEEXIST
                        \o directoryPath \o Text.slash \o dest \o Text.quote]

\* fs.rename(itemPath, newFilePath) rejects when the file may not be unlinked,
\* when the destination folder is no directory, or when the new path is a directory.
RenameFails(t, s, item, dest) ==
    \/ t[item] = "locked"
    \/ dest \notin DOMAIN s
    \/ (item \in DOMAIN s[dest] /\ s[dest][item] = "dir")

\* The error of a rejected fs.rename; the message names both paths.
RenameError(t, s, item, dest) ==
    LET paths == Text.quote \o directoryPath \o Text.slash \o item \o Text.to
                     \o directoryPath \o Text.slash \o dest \o Text.slash \o item
                     \o Text.quote
    IN  IF dest \notin DOMAIN t \/ t[dest] = "dangling"
        THEN [code |-> "ENOENT",
              message |-> Text.renameENOENT \o paths]
        ELSE IF dest \notin DOMAIN s
        THEN [code |-> "ENOTDIR",
              message |-> Text.renameENOTDIR \o paths]
        ELSE IF t[item] = "locked"
        THEN [code |-> "EPERM",
              message |-> Text.renameEPERM \o paths]
        ELSE [code |-> "EISDIR",
              message |-> Text.renameEISDIR
                            \o paths]

\* Mutant: the file is copied and the original stays where it was.
RenameTopKeeps(t, item) == t

\* The target directory after a rename: the entry is gone from the top level.
RenameTop(t, item) == [n \in DOMAIN t \ {item} |-> t[n]]

\* The directories after a rename: the entry is in the destination folder
\* under its own name, replacing a file of that name.
RenameSub(t, s, item, dest) ==
    [s EXCEPT ![dest] =
        [n \in (DOMAIN @) \cup {item} |-> IF n = item THEN t[item] ELSE @[n]]]

\* console.log(`Movido: ${item} -> ${destinationFolder}/`)
MovidoLine(item, folder) ==
    Text.movido \o item \o Text.arrow \o folder \o Text.slash

\* console.log(`Iniciando organização do diretório: ${directoryPath}`)
StartLine(path) == Text.start \o path

\* console.log('\nOrganização concluída com sucesso!')
SuccessLine == Text.success

\* console.error of the entry point when argv[2] is missing.
UsageLines ==
    << Text.erro,
       Text.uso >>

\* console.error of the catch block: the message, and the hint when the code
\* is ENOENT.
ErrorLines(error) ==
    << Text.ocorreu \o error.message >>
      \o (IF error.code = "ENOENT"
          THEN << Text.hint >>
          ELSE <<>>)

\* One filesystem call: what was called, for which entry and folder, whether
\* it was fulfilled, and whether it made a new directory.
Op(op, item, folder, ok, made) ==
    [op |-> op, item |-> item, folder |-> folder, ok |-> ok, made |-> made]

---------------------------------------------------------------------------
(* Initial state: the first invocation is about to start *)

Init ==
    /\ target \in {"listable", "missing", "unreadable"}
    /\ \E S \in InitialDirs :
         /\ target = "missing" => S = {}
         /\ top = [n \in {c.name : c \in S} |-> EntryNamed(S, n).kind]
         /\ sub = [n \in {c.name : c \in {d \in S : d.kind = "dir"}}
                     |-> EntryNamed(S, n).content]
    /\ order = <<>>
    /\ pc = "start"
    /\ listing = <<>>
    /\ i = 1
    /\ fileExtension = <<>>
    /\ destinationFolder = <<>>
    /\ ops = <<>>
    /\ out = <<>>
    /\ err = <<>>
    /\ exitCode = -1
    /\ run = 1
    /\ topStart = top
    /\ subStart = sub
    /\ prevOutcome = "none"

---------------------------------------------------------------------------
(* The catch block of organizeDirectory *)

\* Mutant: the try/catch sits inside the loop; the error is reported and the
\* loop goes on with the next entry.
CatchAndContinue(error) ==
    /\ err' = err \o ErrorLines(error)
    /\ pc' = "stat"
    /\ i' = NextIndex(i)

\* catch (error): the message, a hint when the code is ENOENT, and the function
\* returns normally.
Catch(error) ==
    /\ err' = err \o ErrorLines(error)
    /\ pc' = "returned"
    /\ i' = i

---------------------------------------------------------------------------
(* Steps of one invocation *)

\* The entry point up to the first await: argv[2] missing ends the process
\* with status 1; else organizeDirectory starts and calls fs.readdir.
Main ==
    /\ pc = "start"
    /\ \E targetDirectory \in {<<>>, directoryPath} :
         IF targetDirectory = <<>>
         THEN /\ err' = UsageLines
              /\ exitCode' = 1
              /\ pc' = "exited"
              /\ UNCHANGED out
         ELSE /\ out' = << StartLine(targetDirectory) >>
              /\ pc' = "readdir"
              /\ UNCHANGED <<err, exitCode>>
    /\ UNCHANGED <<target, top, sub, order, listing, i, fileExtension,
                   destinationFolder, ops, run, topStart, subStart, prevOutcome>>

\* const items = await fs.readdir(directoryPath);
Readdir ==
    /\ pc = "readdir"
    /\ IF ReaddirFails(target)
       THEN /\ ops' = Append(ops, Op("readdir", <<>>, <<>>, FALSE, FALSE))
            /\ Catch(ReaddirError(target))
            /\ UNCHANGED <<listing, order>>
       ELSE /\ ops' = Append(ops, Op("readdir", <<>>, <<>>, TRUE, FALSE))
            /\ listing' \in Listings(DOMAIN top, order)
            /\ order' = listing'
            /\ i' = 1
            /\ pc' = "stat"
            /\ UNCHANGED err
    /\ UNCHANGED <<target, top, sub, fileExtension, destinationFolder,
                   out, exitCode, run, topStart, subStart, prevOutcome>>

\* const itemStats = await fs.stat(itemPath); then the skip rule, the
\* extension and the classification, up to the call of fs.mkdir.
Stat ==
    /\ pc = "stat"
    /\ i <= Len(listing)
    /\ LET item == listing[i]
       IN  IF StatFails(top, item)
           THEN /\ ops' = Append(ops, Op("stat", item, <<>>, FALSE, FALSE))
                /\ Catch(StatError(item))
                /\ UNCHANGED <<fileExtension, destinationFolder>>
           ELSE /\ ops' = Append(ops, Op("stat", item, <<>>, TRUE, FALSE))
                /\ UNCHANGED err
                /\ IF ShouldSkip(top[item] = "dir", item)
                   THEN /\ i' = NextIndex(i)
                        /\ pc' = "stat"
                        /\ UNCHANGED <<fileExtension, destinationFolder>>
                   ELSE \E ext \in {toLowerCase(extname(item))} :
                            IF NoExtension(ext)
                            THEN /\ i' = NextIndex(i)
                                 /\ pc' = "stat"
                                 /\ fileExtension' = ext
                                 /\ UNCHANGED destinationFolder
                            ELSE /\ fileExtension' = ext
                                 /\ destinationFolder' = getDestinationFolder(ext)
                                 /\ i' = i
                                 /\ pc' = "mkdir"
    /\ UNCHANGED <<target, top, sub, order, listing, out, exitCode, run,
                   topStart, subStart, prevOutcome>>

\* await fs.mkdir(destinationPath, { recursive: true });
Mkdir ==
    /\ pc = "mkdir"
    /\ LET item == listing[i]
           dest == destinationFolder
       IN  IF MkdirFails(top, dest)
           THEN /\ ops' = Append(ops, Op("mkdir", item, dest, FALSE, FALSE))
                /\ Catch(MkdirError(top, dest))
                /\ UNCHANGED <<top, sub>>
           ELSE /\ ops' = Append(ops, Op("mkdir", item, dest, TRUE, dest \notin DOMAIN top))
                /\ top' = [n \in (DOMAIN top) \cup {dest} |-> IF n = dest THEN "dir" ELSE top[n]]
                /\ sub' = [n \in (DOMAIN sub) \cup {dest}
                             |-> IF n \in DOMAIN sub THEN sub[n] ELSE EmptyContent]
                /\ pc' = "rename"
                /\ UNCHANGED <<i, err>>
    /\ UNCHANGED <<target, order, listing, fileExtension, destinationFolder, out,
                   exitCode, run, topStart, subStart, prevOutcome>>

\* await fs.rename(itemPath, newFilePath); console.log(`Movido: ...`);
Rename ==
    /\ pc = "rename"
    /\ LET item == listing[i]
           dest == destinationFolder
       IN  IF RenameFails(top, sub, item, dest)
           THEN /\ ops' = Append(ops, Op("rename", item, dest, FALSE, FALSE))
                /\ Catch(RenameError(top, sub, item, dest))
                /\ UNCHANGED <<top, sub, out>>
           ELSE /\ ops' = Append(ops, Op("rename", item, dest, TRUE, FALSE))
                /\ sub' = RenameSub(top, sub, item, dest)
                /\ top' = RenameTop(top, item)
                /\ out' = Append(out, MovidoLine(item, dest))
                /\ i' = NextIndex(i)
                /\ pc' = "stat"
                /\ UNCHANGED err
    /\ UNCHANGED <<target, order, listing, fileExtension, destinationFolder,
                   exitCode, run, topStart, subStart, prevOutcome>>

\* The loop is over: the success summary, and organizeDirectory returns.
Finish ==
    /\ pc = "stat"
    /\ i > Len(listing)
    /\ out' = Append(out, SuccessLine)
    /\ pc' = "returned"
    /\ UNCHANGED <<target, top, sub, order, listing, i, fileExtension,
                   destinationFolder, ops, err, exitCode, run, topStart,
                   subStart, prevOutcome>>

\* A filesystem call of this invocation was rejected.
Errored == \E k \in 1..Len(ops) : ~ops[k].ok

\* organizeDirectory has returned and nothing is pending: the process ends.
\* Nothing sets a status after the argument check, so it is 0.
Exit ==
    /\ pc = "returned"
    /\ exitCode' = 0
    /\ pc' = "exited"
    /\ UNCHANGED <<target, top, sub, order, listing, i, fileExtension,
                   destinationFolder, ops, out, err, run, topStart, subStart,
                   prevOutcome>>

\* The program is run again on the same directory.  An invocation that
\* organized (it called the filesystem) becomes the previous run.
Invoke ==
    /\ pc = "exited"
    /\ run < MaxRuns
    /\ run' = run + 1
    /\ pc' = "start"
    /\ listing' = <<>>
    /\ i' = 1
    /\ fileExtension' = <<>>
    /\ destinationFolder' = <<>>
    /\ ops' = <<>>
    /\ out' = <<>>
    /\ err' = <<>>
    /\ exitCode' = -1
    /\ topStart' = top
    /\ subStart' = sub
    /\ prevOutcome' = IF Len(ops) = 0 THEN prevOutcome
                      ELSE IF Errored THEN "aborted" ELSE "completed"
    /\ UNCHANGED <<target, top, sub, order>>

Next == Main \/ Readdir \/ Stat \/ Mkdir \/ Rename \/ Finish \/ Exit \/ Invoke

Spec == Init /\ [][Next]_vars

---------------------------------------------------------------------------
(* The classifier on its own: getDestinationFolder applied to one string *)

\* The extensions of the table.
TableExts ==
    UNION { {FOLDER_MAPPING[k].exts[j] : j \in 1..Len(FOLDER_MAPPING[k].exts)}
            : k \in 1..Len(FOLDER_MAPPING) }

\* Inputs of the classifier: every extension of the table, every prefix of
\* one (the empty string and "." among them), every one with a character
\* added, and some that are in no list (upper case, no dot, two dots, a
\* leading space, the Kelvin sign for k, a final sigma).
ExtInputs ==
    TableExts
      \cup UNION { { SubSeq(e, 1, k) : k \in 0..Len(e) } : e \in TableExts }
      \cup { e \o Units("x") : e \in TableExts }
      \cup { Units(".JPG"), Units(".Txt"), Units(".xyz"), Units("jpg"),
             Units(".."), Units(".tar.gz"), Units(" .jpg"),
             <<46, 109, 8490, 118>>, <<46, 945, 962>> }

ClassifierInit ==
    /\ fileExtension \in ExtInputs
    /\ destinationFolder = <<>>
    /\ pc = "classify"
    /\ target = "listable"
    /\ top = EmptyContent
    /\ sub = EmptyContent
    /\ order = <<>>
    /\ listing = <<>>
    /\ i = 1
    /\ ops = <<>>
    /\ out = <<>>
    /\ err = <<>>
    /\ exitCode = -1
    /\ run = 1
    /\ topStart = top
    /\ subStart = sub
    /\ prevOutcome = "none"

\* const destinationFolder = getDestinationFolder(fileExtension);
Classify ==
    /\ pc = "classify"
    /\ destinationFolder' = getDestinationFolder(fileExtension)
    /\ pc' = "classified"
    /\ UNCHANGED <<target, top, sub, order, listing, i, fileExtension, ops, out,
                   err, exitCode, run, topStart, subStart, prevOutcome>>

ClassifierNext == Classify

ClassifierSpec == ClassifierInit /\ [][ClassifierNext]_vars

---------------------------------------------------------------------------
(* Vocabulary of the properties *)

\* The names the properties speak of, as code units.
Name ==
    [ gitignore |-> Units(".gitignore"),
      zip |-> Units(".zip"),
      aJPG |-> Units("a.JPG"),
      arquivosComprimidos |-> Units("arquivos_comprimidos"),
      bTxt |-> Units("b.txt"),
      dataXyz |-> Units("data.xyz"),
      documentos |-> Units("documentos"),
      imagens |-> Units("imagens"),
      mainJs |-> Units("main.js"),
      outros |-> Units("outros"),
      picsPng |-> Units("pics.png"),
      run |-> Units("run") ]

\* The invocation has finished organizing (organizeDirectory has returned).
RunOver == pc \in {"returned", "exited"} /\ Len(ops) > 0

\* The calls of this invocation that moved a file.
Moves == { k \in 1..Len(ops) : ops[k].op = "rename" /\ ops[k].ok }

\* The folders this invocation made, and those it moved a file into.
CreatedFolders == { ops[k].folder : k \in {j \in 1..Len(ops) : ops[j].op = "mkdir" /\ ops[j].made} }
ReceivingFolders == { ops[k].folder : k \in Moves }

\* The entry is a regular file at the start of the invocation.
RegularAtStart(n) == n \in DOMAIN topStart /\ topStart[n] \in {"file", "locked"}

\* Positions of the dots of a name.
Dots(n) == { k \in 1..Len(n) : n[k] = 46 }

\* The entry n is where it was when the invocation started, and no folder
\* was made and no rename was called for it.
Untouched(n) ==
    /\ n \in DOMAIN top
    /\ top[n] = topStart[n]
    /\ \A k \in 1..Len(ops) : ops[k].op \in {"mkdir", "rename"} => ops[k].item # n

\* The lines standard output holds for the calls made so far.
ExpectedOut ==
    LET moved == SelectSeq(ops, LAMBDA o : o.op = "rename" /\ o.ok)
    IN  <<StartLine(directoryPath)>>
          \o [k \in 1..Len(moved) |-> MovidoLine(moved[k].item, moved[k].folder)]

---------------------------------------------------------------------------
(* C1 *)

\* C1: whenever a filesystem call of a run fails, the process ends with exit
\* code 1 after an error message on standard error; exit code 0 only when
\* the organization completed.
C1_ErrorExitsWithOne ==
    pc = "exited" =>
        /\ Errored => (exitCode = 1 /\ err # <<>>)
        /\ exitCode = 0 => (~Errored /\ out # <<>> /\ out[Len(out)] = SuccessLine)

---------------------------------------------------------------------------
(* C2 *)

\* C2: when stat, mkdir or rename is rejected for an entry, the run aborts at
\* once: that call is the last filesystem call of the run, no Movido line is
\* printed for the entry or a later one, the success summary is not printed,
\* and every file moved before stays in its folder.
C2_AbortOnFailure ==
    \A k \in 1..Len(ops) :
        (~ops[k].ok /\ ops[k].op \in {"stat", "mkdir", "rename"}) =>
            /\ k = Len(ops)
            /\ pc \in {"returned", "exited"}
            /\ out = ExpectedOut
            /\ \A j \in 1..Len(out) :
                 /\ out[j] # SuccessLine
                 /\ out[j] # MovidoLine(ops[k].item, ops[k].folder)
            /\ \A j \in Moves :
                 /\ ops[j].item \notin DOMAIN top
                 /\ ops[j].folder \in DOMAIN sub
                 /\ ops[j].item \in DOMAIN sub[ops[j].folder]
                 /\ sub[ops[j].folder][ops[j].item] = topStart[ops[j].item]

\* A run that moved a file and was then aborted by a rejected mkdir.
C2_Witness ==
    /\ pc = "returned"
    /\ Moves # {}
    /\ ops[Len(ops)].op = "mkdir"
    /\ ~ops[Len(ops)].ok

---------------------------------------------------------------------------
(* C3 *)

\* C3: whatever the directory held, and however the first run ended, a
\* second run in succession moves no file and leaves the filesystem as the
\* first run left it.
C3_SecondRunMovesNothing ==
    (prevOutcome # "none" /\ RunOver) =>
        /\ Moves = {}
        /\ top = topStart
        /\ sub = subStart

\* A second run after a first run that moved b.txt and was then aborted: it
\* lists the category folder the first run made and is aborted in its turn.
C3_Witness ==
    /\ prevOutcome = "aborted"
    /\ pc = "returned"
    /\ Errored
    /\ Name.documentos \in DOMAIN sub
    /\ Name.bTxt \in DOMAIN sub[Name.documentos]
    /\ \E k \in 1..Len(ops) : ops[k].op = "stat" /\ ops[k].item = Name.documentos
    /\ Len(listing) >= 2

---------------------------------------------------------------------------
(* C4 *)

\* C4: no directory and no entry named like the program's own file is ever
\* renamed, whatever its extension; it stays at the top level.
C4_DirsAndSelfStay ==
    /\ \A k \in 1..Len(ops) :
         ops[k].op \in {"mkdir", "rename"} =>
             (topStart[ops[k].item] # "dir" /\ ops[k].item # Name.mainJs)
    /\ \A n \in DOMAIN topStart :
         (topStart[n] = "dir" \/ n = Name.mainJs) =>
             (n \in DOMAIN top /\ top[n] = topStart[n])

\* A completed run that moved a file past main.js and a directory named pics.png.
C4_Witness ==
    /\ pc = "returned"
    /\ ~Errored
    /\ Moves # {}
    /\ Name.mainJs \in DOMAIN topStart /\ Name.mainJs \in DOMAIN top
    /\ Name.picsPng \in DOMAIN topStart /\ Name.picsPng \in DOMAIN top

---------------------------------------------------------------------------
(* C5 *)

\* The name has no dot.
NoDot(n) == Dots(n) = {}

\* The only dot of the name is its first character.
LeadingDotOnly(n) == Dots(n) = {1}

\* No character follows the last dot of the name.
EndsWithDot(n) == Len(n) \in Dots(n)

\* C5 as stated: a top-level file whose name has no dot, only a leading dot,
\* or nothing after its last dot is left in place: never renamed, and no
\* folder is made for it.
C5_NoExtensionUntouched ==
    \A n \in DOMAIN topStart :
        (RegularAtStart(n) /\ (NoDot(n) \/ LeadingDotOnly(n) \/ EndsWithDot(n)))
            => Untouched(n)

\* C5 amended: a top-level file whose name has no dot, or whose only dot is
\* its first character, is left in place: never renamed, and no folder is
\* made for it.  (A name that ends with a dot after other characters has the
\* extension "." and is moved to outros.)
C5_EmptyExtnameUntouched ==
    \A n \in DOMAIN topStart :
        (RegularAtStart(n) /\ (NoDot(n) \/ LeadingDotOnly(n))) => Untouched(n)

\* A completed run that moved a file and met both run and .gitignore.
C5_Witness ==
    /\ pc = "returned"
    /\ ~Errored
    /\ Moves # {}
    /\ \E k \in 1..Len(ops) : ops[k].op = "stat" /\ ops[k].item = Name.run
    /\ \E k \in 1..Len(ops) : ops[k].op = "stat" /\ ops[k].item = Name.gitignore
    /\ Untouched(Name.run) /\ Untouched(Name.gitignore)

---------------------------------------------------------------------------
(* C6 *)

\* The categories whose list holds e.
MatchingCategories(e) ==
    { k \in 1..Len(FOLDER_MAPPING) :
        e \in {FOLDER_MAPPING[k].exts[j] : j \in 1..Len(FOLDER_MAPPING[k].exts)} }

\* C6: the classifier returns, for every string, the first category in the
\* table's order whose list holds it, and outros when no list holds it (the
\* empty string included); it always returns, and changes nothing else.
C6_ClassifierMatchesTable ==
    pc = "classified" =>
        /\ IF MatchingCategories(fileExtension) = {}
           THEN destinationFolder = Name.outros
           ELSE \E k \in MatchingCategories(fileExtension) :
                  /\ \A j \in MatchingCategories(fileExtension) : k <= j
                  /\ destinationFolder = FOLDER_MAPPING[k].folder
        /\ top = topStart /\ sub = subStart /\ ops = <<>> /\ out = <<>> /\ err = <<>>

\* An extension that is in one list only, the fifth, was classified.
C6_Witness ==
    /\ pc = "classified"
    /\ fileExtension = Name.zip
    /\ MatchingCategories(fileExtension) = {5}
    /\ destinationFolder = Name.arquivosComprimidos

---------------------------------------------------------------------------
(* C7 *)

\* C7: entries are processed one after the other in the order of the single
\* listing: the entries stat was called for are a prefix of the listing (so
\* each is processed at most once), the calls for one entry come in the
\* order stat, mkdir, rename with nothing of another entry in between, and
\* the Movido lines come in listing order.
C7_SequentialInListingOrder ==
    LET stats == SelectSeq(ops, LAMBDA o : o.op = "stat")
        movedItems ==
            SelectSeq(listing, LAMBDA n : \E k \in Moves : ops[k].item = n)
        folderOf(n) == ops[CHOOSE k \in Moves : ops[k].item = n].folder
        lines == IF out # <<>> /\ out[Len(out)] = SuccessLine
                 THEN SubSeq(out, 2, Len(out) - 1)
                 ELSE SubSeq(out, 2, Len(out))
    IN  /\ \A k \in 1..Len(ops) : ops[k].op = "readdir" <=> k = 1
        /\ Len(stats) <= Len(listing)
        /\ \A k \in 1..Len(stats) : stats[k].item = listing[k]
        /\ \A k \in 2..Len(ops) :
             /\ ops[k].op = "mkdir" =>
                  (ops[k-1].op = "stat" /\ ops[k-1].ok /\ ops[k-1].item = ops[k].item)
             /\ ops[k].op = "rename" =>
                  (ops[k-1].op = "mkdir" /\ ops[k-1].ok /\ ops[k-1].item = ops[k].item)
             /\ ops[k].op = "stat" =>
                  \/ k = 2
                  \/ (ops[k-1].op = "stat" /\ ops[k-1].ok)
                  \/ (ops[k-1].op = "rename" /\ ops[k-1].ok)
        /\ out # <<>> =>
             lines = [k \in 1..Len(movedItems)
                        |-> MovidoLine(movedItems[k], folderOf(movedItems[k]))]

\* A completed run over three entries that moved the first and the third.
C7_Witness ==
    /\ pc = "returned"
    /\ ~Errored
    /\ Len(listing) = 3
    /\ Cardinality(Moves) = 2
    /\ \E k \in Moves : ops[k].item = listing[1]
    /\ \E k \in Moves : ops[k].item = listing[3]
    /\ Len(out) = 4

---------------------------------------------------------------------------
(* C8 *)

\* C8 as stated: at the end of every run, completed or aborted, the folders
\* the run made are exactly the categories that received a file in the run.
C8_CreatedAreReceiving ==
    RunOver => CreatedFolders = ReceivingFolders

\* The category of the entry whose rename was rejected, if that ended the run.
FailedRenameFolder ==
    IF Len(ops) > 0 /\ ops[Len(ops)].op = "rename" /\ ~ops[Len(ops)].ok
    THEN {ops[Len(ops)].folder}
    ELSE {}

\* C8 amended: at the end of every run, every folder the run made is the
\* folder of a category that received a file in the run, or of the category
\* of the entry whose rejected rename aborted the run; and every category
\* that received a file has its folder, made by the run unless it was a
\* directory before.
C8_CreatedOrAborted ==
    RunOver =>
        /\ CreatedFolders \subseteq ReceivingFolders \cup FailedRenameFolder
        /\ ReceivingFolders \subseteq
             CreatedFolders \cup {d \in DOMAIN topStart : topStart[d] = "dir"}
        /\ CreatedFolders \cap DOMAIN topStart = {}
        /\ \A c \in CreatedFolders \cup ReceivingFolders :
             c \in DOMAIN top /\ top[c] = "dir"

\* A run aborted by a rejected rename right after it made the folder, which
\* stays empty.
C8_Witness ==
    /\ pc = "returned"
    /\ FailedRenameFolder # {}
    /\ FailedRenameFolder \subseteq CreatedFolders
    /\ FailedRenameFolder \cap ReceivingFolders = {}
    /\ \A c \in FailedRenameFolder : sub[c] = EmptyContent

---------------------------------------------------------------------------
(* C9 *)

\* C9: when the listing is rejected, the run aborts before any mutation: no
\* stat, mkdir or rename is called, nothing is created, the success summary
\* is not printed and the filesystem is as it was.
C9_ListingFailureMutatesNothing ==
    (Len(ops) > 0 /\ ops[1].op = "readdir" /\ ~ops[1].ok) =>
        /\ Len(ops) = 1
        /\ pc \in {"returned", "exited"}
        /\ top = topStart
        /\ sub = subStart
        /\ out = <<StartLine(directoryPath)>>
        /\ err # <<>>

\* The listing of a directory that holds entries was rejected.
C9_Witness ==
    /\ pc = "returned"
    /\ Len(ops) = 1
    /\ ~ops[1].ok
    /\ target = "unreadable"
    /\ DOMAIN top # {}

---------------------------------------------------------------------------
(* C10 *)

\* The extension e of the table (lower-case letters a-z, digits and a dot)
\* is the lower-case form of x: at each position x has the character of e,
\* or, for a letter, its capital (32 below) or, for k, the Kelvin sign.
IsLowerCaseOf(e, x) ==
    /\ Len(e) = Len(x)
    /\ \A k \in 1..Len(x) :
         \/ x[k] = e[k]
         \/ (97 <= e[k] /\ e[k] <= 122 /\ x[k] = e[k] - 32)
         \/ (e[k] = 107 /\ x[k] = 8490)

\* The name has a non-empty extension: a last dot that is not its first
\* character (and the name is not "..").
HasExtension(n) == Dots(n) # {} /\ Dots(n) # {1} /\ n # <<46, 46>>

\* The text of the name from its last dot on.
Suffix(n) ==
    LET d == CHOOSE k \in Dots(n) : \A j \in Dots(n) : j <= k
    IN  SubSeq(n, d, Len(n))

\* The categories whose list holds the lower-case form of x.
CategoriesIgnoringCase(x) ==
    { k \in 1..Len(FOLDER_MAPPING) :
        \E j \in 1..Len(FOLDER_MAPPING[k].exts) :
            IsLowerCaseOf(FOLDER_MAPPING[k].exts[j], x) }

\* The folder the table gives the name.
ExpectedFolder(n) ==
    LET ks == CategoriesIgnoringCase(Suffix(n))
    IN  IF ks = {} THEN Name.outros
        ELSE FOLDER_MAPPING[CHOOSE k \in ks : \A j \in ks : k <= j].folder

\* C10: after a run that completed without error, every entry that was a
\* top-level regular file with a non-empty extension, other than main.js, is
\* in the folder of the category of its extension in lower case, under its
\* own name, and no entry of that name is left at the top level.
C10_MovedToCategory ==
    (RunOver /\ ~Errored) =>
        \A n \in DOMAIN topStart :
            (RegularAtStart(n) /\ n # Name.mainJs /\ HasExtension(n)) =>
                /\ n \notin DOMAIN top
                /\ \E C \in {ExpectedFolder(n)} :
                     /\ C \in DOMAIN sub
                     /\ n \in DOMAIN sub[C]
                     /\ sub[C][n] = topStart[n]

\* A completed run that put a.JPG in imagens and data.xyz in outros.
C10_Witness ==
    /\ pc = "returned"
    /\ ~Errored
    /\ RegularAtStart(Name.aJPG) /\ RegularAtStart(Name.dataXyz)
    /\ Name.imagens \in DOMAIN sub
    /\ Name.aJPG \in DOMAIN sub[Name.imagens]
    /\ Name.outros \in DOMAIN sub
    /\ Name.dataXyz \in DOMAIN sub[Name.outros]

===========================================================================
